---- MODULE Spec2Model ----
(***************************************************************************)
(* Model of pkg/standalone/standalone.go: the Init orchestrator, the three *)
(* setup tasks it starts as goroutines, the closer goroutine and the       *)
(* unbuffered outcome channel errorChan.                                   *)
(*                                                                         *)
(* A Go error value is a record [type, code, msg]:                         *)
(*   type  "nil"         the nil error                                     *)
(*         "errorString" a value made by fmt.Errorf                        *)
(*         "ExitError"   *exec.ExitError, code holds its exit status       *)
(*         "execError"   *exec.Error, the process could not be spawned     *)
(*         "osError"     an error of a filesystem, network or user call    *)
(*   msg   the text of Error(), a sequence of string pieces                *)
(* A path is a sequence of path elements; the empty path "" is << >>.      *)
(***************************************************************************)
EXTENDS Integers, Sequences, FiniteSets, TLC

(* Bounds of the model. *)
MaxOtherExit == 1
MaxEntries == 2

(* Exit statuses tested by the code. *)
ExitContainerRun == 125
ExitCommandNotFound == 127

VARIABLES
    goos,         \* runtime.GOOS
    userFails,    \* user.Current() returns an error
    mkdirFails,   \* os.MkdirAll returns an error
    dockerRes,    \* per launcher: what cmd.Run() of docker returns
    instEnv,      \* what the external calls of the installer pipeline return
    initPc,       \* position of Init
    ret,          \* the error Init returned (meaningful once initPc = "returned")
    cur,          \* loop variable err of the range loop at line 63
    recvLog,      \* the values Init received from errorChan, in order
    senders,      \* the task each received value came from, in order
    nextStep,     \* index into initSteps of the next goroutine to start
    wg,           \* counter of the sync.WaitGroup
    closed,       \* errorChan has been closed
    closerPc,     \* position of the closer goroutine (lines 58-61)
    taskPc,       \* position of each task goroutine
    pending,      \* the value each task is sending or has sent
    stages,       \* the pipeline stages installActionsBinary executed, in order
    calls,        \* the external calls installActionsBinary made, in order
    spinner,      \* state of the progress indicator
    infoShown,    \* print.InfoStatusEvent was called
    successShown  \* print.SuccessStatusEvent was called

vars == <<goos, userFails, mkdirFails, dockerRes, instEnv, initPc, ret, cur,
          recvLog, senders, nextStep, wg, closed, closerPc, taskPc, pending, stages,
          calls, spinner, infoShown, successShown>>

envVars == <<goos, userFails, mkdirFails, dockerRes, instEnv>>

(***************************************************************************)
(* Error values                                                            *)
(***************************************************************************)
Nil == [type |-> "nil", code |-> 0, msg |-> << >>]

Errorf(pieces) == [type |-> "errorString", code |-> 0, msg |-> pieces]

ExitError(c) ==
    [type |-> "ExitError", code |-> c, msg |-> <<"exit status ", ToString(c)>>]

ExecError ==
    [type |-> "execError", code |-> 0,
     msg |-> <<"exec: \"docker\": executable file not found in $PATH">>]

OsError(call) == [type |-> "osError", code |-> 0, msg |-> <<call, ": failed">>]

(* The three goroutine bodies appended to initSteps, in order. *)
initSteps == <<"installActionsBinary", "runPlacementService", "runRedis">>

Tasks == {initSteps[i] : i \in 1..Len(initSteps)}

Launchers == {"runPlacementService", "runRedis"}

(* What cmd.Run() can return for a docker invocation. *)
ExitCodes == (1..MaxOtherExit) \cup {ExitContainerRun, ExitCommandNotFound}

CmdResults == {Nil, ExecError} \cup {ExitError(c) : c \in ExitCodes}

(***************************************************************************)
(* Path resolver                                                           *)
(***************************************************************************)
getActionsDir(os, uFails, mFails) ==
    IF os = "windows"
    THEN IF mFails
         THEN [p |-> << >>, err |-> OsError("mkdir")]
         ELSE [p |-> <<"c:", "actions">>, err |-> Nil]
    ELSE IF uFails
         THEN [p |-> << >>, err |-> OsError("user")]
         ELSE IF mFails
              THEN [p |-> << >>, err |-> OsError("mkdir")]
              ELSE [p |-> <<"home", ".actions">>, err |-> Nil]

(***************************************************************************)
(* Container launchers                                                     *)
(***************************************************************************)
runCmd(res) == IF res # Nil THEN res ELSE Nil

(* parseDockerError without the branch for exit status 127. *)
parseDockerErrorNoNotFound(component, err) ==
    IF err.type = "ExitError" /\ err.code = ExitContainerRun
    THEN Errorf(<<"Failed to launch ", component, ". Is it already running?">>)
    ELSE err

parseDockerError(component, err) ==
    IF err.type = "ExitError" /\ err.code = ExitContainerRun
    THEN Errorf(<<"Failed to launch ", component, ". Is it already running?">>)
    ELSE IF err.type = "ExitError" /\ err.code = ExitCommandNotFound
         THEN Errorf(<<"Failed to launch ", component,
                       ". Make sure Docker is installed and running">>)
         ELSE err

(* isContainerRunError that recognises no exit status. *)
isContainerRunErrorNever(err) == FALSE

(* isContainerRunError testing for the other exit status. *)
isContainerRunErrorWrongCode(err) ==
    IF err.type = "ExitError" THEN err.code = ExitCommandNotFound ELSE FALSE

isContainerRunError(err) ==
    IF err.type = "ExitError" THEN err.code = ExitContainerRun ELSE FALSE

(* The value runRedis sends on errorChan, given what docker returned. *)
runRedis(res) ==
    LET err == runCmd(res)
    IN  IF err # Nil
        THEN IF ~isContainerRunError(err)
             THEN parseDockerError("Redis state store", err)
             ELSE Nil
        ELSE Nil

(* The value runPlacementService sends on errorChan. *)
runPlacementService(res) ==
    LET err == runCmd(res)
    IN  IF err # Nil
        THEN IF ~isContainerRunError(err)
             THEN parseDockerError("placement service", err)
             ELSE Nil
        ELSE Nil

(***************************************************************************)
(* Binary installer pipeline.  env names what the external calls return:   *)
(*   failAt    the external call that fails ("none": no call fails); the   *)
(*             pipeline stops at the first failing call, so one suffices   *)
(*   statErr   the error os.Stat returns for the download destination      *)
(*   nEntries  the number of entries of the downloaded archive             *)
(*   path      the value of the PATH environment variable                  *)
(* Every function returns the external calls it made in field calls.       *)
(***************************************************************************)
FailPoints ==
    {"none", "http.Get", "os.Create", "io.Copy(download)", "zip.OpenReader",
     "file.Open", "os.OpenFile", "io.Copy(extract)", "SETX", "ioutil.ReadFile",
     "ioutil.WriteFile", "os.Chmod"}

StatErrs == {"nil", "ErrNotExist", "ErrPermission"}

(* A string of PATH is a sequence of pieces; strings.ToLower works piece   *)
(* by piece and strings.Contains looks for a run of consecutive pieces.    *)
ToLowerPiece(c) ==
    CASE c = "C:\\" -> "c:\\"
      [] c = "Actions" -> "actions"
      [] c = "ACTIONS" -> "actions"
      [] c = "Windows" -> "windows"
      [] OTHER -> c

(* strings.ToLower that changes nothing: a case-sensitive comparison. *)
ToLowerIdentity(str) == str

ToLower(str) == [i \in 1..Len(str) |-> ToLowerPiece(str[i])]

Contains(str, substr) ==
    \E i \in 0..(Len(str) - Len(substr)) :
        \A j \in 1..Len(substr) : str[i + j] = substr[j]

PathValues ==
    {<<"C:\\", "Windows">>,
     <<"C:\\", "Windows", ";", "c:\\", "actions">>,
     <<"C:\\", "Windows", ";", "C:\\", "Actions">>,
     <<"C:\\", "ACTIONS", ";", "C:\\", "Windows">>,
     <<"C:\\", "Windows", ";", "c:\\", "actions", "2">>}

EntryName(i) == "file" \o ToString(i)

Archive(n) == [i \in 1..n |-> EntryName(i)]

InstEnvs ==
    [failAt : FailPoints, statErr : StatErrs, nEntries : 0..MaxEntries,
     path : PathValues]

(* The test a skip-if-downloaded check would make: the stat succeeded. *)
IsExistWhenPresent(err) == err = "nil"

IsExist(err) == err = "ErrExist"

Base(filepath) == IF filepath = << >> THEN "." ELSE filepath[Len(filepath)]

downloadFile(dir, env) ==
    LET filepath == Append(dir, "actionsrt.zip")
    IN  IF IsExist(env.statErr)
        THEN [path |-> << >>, err |-> Nil, calls |-> <<"os.Stat">>]
        ELSE IF env.failAt = "http.Get"
        THEN [path |-> << >>, err |-> OsError("http.Get"),
              calls |-> <<"os.Stat", "http.Get">>]
        ELSE IF env.failAt = "os.Create"
        THEN [path |-> << >>, err |-> OsError("os.Create"),
              calls |-> <<"os.Stat", "http.Get", "os.Create">>]
        ELSE IF env.failAt = "io.Copy(download)"
        THEN [path |-> << >>, err |-> OsError("io.Copy"),
              calls |-> <<"os.Stat", "http.Get", "os.Create", "io.Copy">>]
        ELSE [path |-> filepath, err |-> Nil,
              calls |-> <<"os.Stat", "http.Get", "os.Create", "io.Copy">>]

(* The body of the loop at lines 213-241 for entry number i: every path    *)
(* through it returns.                                                     *)
extractEntry(entries, i, targetDir, env) ==
    LET name == entries[i]
        extractedFilePath == Append(targetDir, name)
    IN  IF env.failAt = "file.Open"
        THEN [path |-> << >>, err |-> OsError("file.Open"),
              calls |-> <<"file.Open " \o name>>]
        ELSE IF env.failAt = "os.OpenFile"
        THEN [path |-> << >>, err |-> OsError("os.OpenFile"),
              calls |-> <<"file.Open " \o name, "os.OpenFile " \o name>>]
        ELSE IF env.failAt = "io.Copy(extract)"
        THEN [path |-> << >>, err |-> OsError("io.Copy"),
              calls |-> <<"file.Open " \o name, "os.OpenFile " \o name,
                          "io.Copy " \o name>>]
        ELSE [path |-> extractedFilePath, err |-> Nil,
              calls |-> <<"file.Open " \o name, "os.OpenFile " \o name,
                          "io.Copy " \o name>>]

(* extractFile whose loop goes on to the next entry instead of returning:  *)
(* it writes every entry and returns the path of the last one.             *)
extractFileAllEntries(filepath, targetDir, env) ==
    IF env.failAt = "zip.OpenReader" \/ filepath = << >>
    THEN [path |-> << >>, err |-> OsError("zip.OpenReader"),
          calls |-> <<"zip.OpenReader">>]
    ELSE LET entries == Archive(env.nEntries)
             n == Len(entries)
             r(i) == extractEntry(entries, i, targetDir, env)
         IN  IF n = 0
             THEN [path |-> << >>, err |-> Nil, calls |-> <<"zip.OpenReader">>]
             ELSE IF r(1).err # Nil
             THEN [r(1) EXCEPT !.calls = <<"zip.OpenReader">> \o @]
             ELSE [path |-> r(n).path, err |-> Nil,
                   calls |-> <<"zip.OpenReader">> \o
                       [k \in 1..(3 * n) |->
                           r(((k - 1) \div 3) + 1).calls[((k - 1) % 3) + 1]]]

(* extractFile that reports an archive without entries as an error. *)
extractFileEmptyIsError(filepath, targetDir, env) ==
    IF env.failAt = "zip.OpenReader" \/ filepath = << >>
    THEN [path |-> << >>, err |-> OsError("zip.OpenReader"),
          calls |-> <<"zip.OpenReader">>]
    ELSE LET entries == Archive(env.nEntries)
         IN  IF Len(entries) = 0
             THEN [path |-> << >>, err |-> OsError("empty archive"),
                   calls |-> <<"zip.OpenReader">>]
             ELSE LET r == extractEntry(entries, 1, targetDir, env)
                  IN  [r EXCEPT !.calls = <<"zip.OpenReader">> \o @]

extractFile(filepath, targetDir, env) ==
    IF env.failAt = "zip.OpenReader" \/ filepath = << >>
    THEN [path |-> << >>, err |-> OsError("zip.OpenReader"),
          calls |-> <<"zip.OpenReader">>]
    ELSE LET entries == Archive(env.nEntries)
         IN  IF Len(entries) = 0
             THEN [path |-> << >>, err |-> Nil, calls |-> <<"zip.OpenReader">>]
             ELSE LET r == extractEntry(entries, 1, targetDir, env)
                  IN  [r EXCEPT !.calls = <<"zip.OpenReader">> \o @]

moveFileToPath(filepath, os, env) ==
    LET fileName == Base(filepath)
    IN  IF os = "windows"
        THEN IF ~Contains(ToLower(env.path), ToLower(<<"c:\\", "actions">>))
             THEN IF env.failAt = "SETX"
                  THEN [path |-> << >>, err |-> OsError("SETX"),
                        calls |-> <<"SETX">>]
                  ELSE [path |-> <<"c:", "actions", "actionsrt.exe">>,
                        err |-> Nil, calls |-> <<"SETX">>]
             ELSE [path |-> <<"c:", "actions", "actionsrt.exe">>,
                   err |-> Nil, calls |-> << >>]
        ELSE LET destFilePath == <<"usr", "local", "bin", fileName>>
             IN  IF env.failAt = "ioutil.ReadFile" \/ filepath = << >>
                 THEN [path |-> << >>, err |-> OsError("ioutil.ReadFile"),
                       calls |-> <<"ioutil.ReadFile">>]
                 ELSE IF env.failAt = "ioutil.WriteFile"
                 THEN [path |-> << >>, err |-> OsError("ioutil.WriteFile"),
                       calls |-> <<"ioutil.ReadFile", "ioutil.WriteFile">>]
                 ELSE [path |-> destFilePath, err |-> Nil,
                       calls |-> <<"ioutil.ReadFile", "ioutil.WriteFile">>]

makeExecutable(filepath, os, env) ==
    IF os # "windows"
    THEN IF env.failAt = "os.Chmod"
         THEN [err |-> OsError("os.Chmod"), calls |-> <<"os.Chmod">>]
         ELSE [err |-> Nil, calls |-> <<"os.Chmod">>]
    ELSE [err |-> Nil, calls |-> << >>]

(* installActionsBinary without the error test after extractFile. *)
installActionsBinaryNoExtractTest(dir, os, env) ==
    LET d == downloadFile(dir, env)
        x == extractFile(d.path, dir, env)
        m == moveFileToPath(x.path, os, env)
        c == makeExecutable(m.path, os, env)
    IN  IF d.err # Nil
        THEN [sent |-> Errorf(<<"Error downloading actions binary: ">> \o d.err.msg),
              stages |-> <<"download">>, calls |-> d.calls]
        ELSE IF m.err # Nil
        THEN [sent |-> Errorf(<<"Error moving actions binary to path: ">> \o m.err.msg),
              stages |-> <<"download", "extract", "move">>,
              calls |-> d.calls \o x.calls \o m.calls]
        ELSE IF c.err # Nil
        THEN [sent |-> Errorf(<<"Error making actions binary executable: ">> \o c.err.msg),
              stages |-> <<"download", "extract", "move", "chmod">>,
              calls |-> d.calls \o x.calls \o m.calls \o c.calls]
        ELSE [sent |-> Nil,
              stages |-> <<"download", "extract", "move", "chmod">>,
              calls |-> d.calls \o x.calls \o m.calls \o c.calls]

(* The value installActionsBinary sends, the stages it ran and the calls   *)
(* they made.                                                              *)
installActionsBinary(dir, os, env) ==
    LET d == downloadFile(dir, env)
        x == extractFile(d.path, dir, env)
        m == moveFileToPath(x.path, os, env)
        c == makeExecutable(m.path, os, env)
    IN  IF d.err # Nil
        THEN [sent |-> Errorf(<<"Error downloading actions binary: ">> \o d.err.msg),
              stages |-> <<"download">>, calls |-> d.calls]
        ELSE IF x.err # Nil
        THEN [sent |-> Errorf(<<"Error extracting actions binary: ">> \o x.err.msg),
              stages |-> <<"download", "extract">>, calls |-> d.calls \o x.calls]
        ELSE IF m.err # Nil
        THEN [sent |-> Errorf(<<"Error moving actions binary to path: ">> \o m.err.msg),
              stages |-> <<"download", "extract", "move">>,
              calls |-> d.calls \o x.calls \o m.calls]
        ELSE IF c.err # Nil
        THEN [sent |-> Errorf(<<"Error making actions binary executable: ">> \o c.err.msg),
              stages |-> <<"download", "extract", "move", "chmod">>,
              calls |-> d.calls \o x.calls \o m.calls \o c.calls]
        ELSE [sent |-> Nil,
              stages |-> <<"download", "extract", "move", "chmod">>,
              calls |-> d.calls \o x.calls \o m.calls \o c.calls]

(***************************************************************************)
(* The state machine                                                       *)
(***************************************************************************)
(* The installer environments of a fresh host: nothing downloaded yet and  *)
(* no actions directory on PATH.                                           *)
FreshEnvs ==
    {e \in InstEnvs :
        e.statErr = "ErrNotExist" /\ e.path = <<"C:\\", "Windows">>}

(* The state when Init is called, the answers of the external world drawn  *)
(* from envs (installer) and results (docker).                             *)
InitWith(envs, results) ==
    /\ goos \in {"linux", "windows"}
    /\ userFails \in BOOLEAN
    /\ mkdirFails \in BOOLEAN
    /\ dockerRes \in [Launchers -> results]
    /\ instEnv \in envs
    /\ initPc = "start"
    /\ ret = Nil
    /\ cur = Nil
    /\ recvLog = << >>
    /\ senders = << >>
    /\ nextStep = 1
    /\ wg = 0
    /\ closed = FALSE
    /\ closerPc = "idle"
    /\ taskPc = [t \in Tasks |-> "idle"]
    /\ pending = [t \in Tasks |-> Nil]
    /\ stages = << >>
    /\ calls = << >>
    /\ spinner = "none"
    /\ infoShown = FALSE
    /\ successShown = FALSE

(* Every docker result, on a fresh host. *)
Init == InitWith(FreshEnvs, CmdResults)

(* Every installer environment, docker succeeding. *)
PipelineInit == InitWith(InstEnvs, {Nil})

(* The directory Init resolved at line 27 and hands to every task. *)
dir == getActionsDir(goos, userFails, mkdirFails).p

(* InitResolve that ignores the error of getActionsDir. *)
InitResolveIgnoreErr ==
    /\ initPc = "start"
    /\ wg' = wg + Len(initSteps)
    /\ IF goos = "windows"
       THEN infoShown' = TRUE /\ UNCHANGED spinner
       ELSE spinner' = "spinning" /\ UNCHANGED infoShown
    /\ initPc' = "spawn"
    /\ UNCHANGED <<envVars, ret, cur, recvLog, senders, nextStep, closed, closerPc,
                   taskPc, pending, stages, calls, successShown>>

(* InitResolve adding one too few to the wait group. *)
InitResolveAddTooFew ==
    /\ initPc = "start"
    /\ LET r == getActionsDir(goos, userFails, mkdirFails)
       IN  IF r.err # Nil
           THEN /\ ret' = r.err
                /\ initPc' = "returned"
                /\ UNCHANGED <<wg, spinner, infoShown>>
           ELSE /\ wg' = wg + Len(initSteps) - 1
                /\ IF goos = "windows"
                   THEN infoShown' = TRUE /\ UNCHANGED spinner
                   ELSE spinner' = "spinning" /\ UNCHANGED infoShown
                /\ initPc' = "spawn"
                /\ UNCHANGED ret
    /\ UNCHANGED <<envVars, cur, recvLog, senders, nextStep, closed, closerPc, taskPc,
                   pending, stages, calls, successShown>>

(* Lines 27-52: resolve the directory; on an error return it, otherwise    *)
(* wg.Add(len(initSteps)) and start the progress indicator.                *)
InitResolve ==
    /\ initPc = "start"
    /\ LET r == getActionsDir(goos, userFails, mkdirFails)
       IN  IF r.err # Nil
           THEN /\ ret' = r.err
                /\ initPc' = "returned"
                /\ UNCHANGED <<wg, spinner, infoShown>>
           ELSE /\ wg' = wg + Len(initSteps)
                /\ IF goos = "windows"
                   THEN infoShown' = TRUE /\ UNCHANGED spinner
                   ELSE spinner' = "spinning" /\ UNCHANGED infoShown
                /\ initPc' = "spawn"
                /\ UNCHANGED ret
    /\ UNCHANGED <<envVars, cur, recvLog, senders, nextStep, closed, closerPc, taskPc,
                   pending, stages, calls, successShown>>

(* Lines 54-56: one iteration of the loop, go step(...). *)
InitSpawn ==
    /\ initPc = "spawn"
    /\ nextStep <= Len(initSteps)
    /\ taskPc' = [taskPc EXCEPT ![initSteps[nextStep]] = "run"]
    /\ nextStep' = nextStep + 1
    /\ UNCHANGED <<envVars, initPc, ret, cur, recvLog, senders, wg, closed, closerPc,
                   pending, stages, calls, spinner, infoShown, successShown>>

(* Lines 58-61: go func() { wg.Wait(); close(errorChan) }(). *)
InitSpawnCloser ==
    /\ initPc = "spawn"
    /\ nextStep > Len(initSteps)
    /\ closerPc' = "wait"
    /\ initPc' = "recv"
    /\ UNCHANGED <<envVars, ret, cur, recvLog, senders, nextStep, wg, closed, taskPc,
                   pending, stages, calls, spinner, infoShown, successShown>>

(* The closer goroutine without its wg.Wait(). *)
CloserWaitNoWait ==
    /\ closerPc = "wait"
    /\ closerPc' = "close"
    /\ UNCHANGED <<envVars, initPc, ret, cur, recvLog, senders, nextStep, wg, closed,
                   taskPc, pending, stages, calls, spinner, infoShown,
                   successShown>>

(* Line 59: wg.Wait() returns once the counter is zero. *)
CloserWait ==
    /\ closerPc = "wait"
    /\ wg = 0
    /\ closerPc' = "close"
    /\ UNCHANGED <<envVars, initPc, ret, cur, recvLog, senders, nextStep, wg, closed,
                   taskPc, pending, stages, calls, spinner, infoShown,
                   successShown>>

(* Line 60: close(errorChan). *)
CloserClose ==
    /\ closerPc = "close"
    /\ closed' = TRUE
    /\ closerPc' = "done"
    /\ UNCHANGED <<envVars, initPc, ret, cur, recvLog, senders, nextStep, wg, taskPc,
                   pending, stages, calls, spinner, infoShown, successShown>>

(* A launcher that returns without sending when docker reports status 125. *)
LauncherRunSkipSend(t) ==
    /\ t \in Launchers
    /\ taskPc[t] = "run"
    /\ pending' = [pending EXCEPT ![t] =
                      IF t = "runRedis"
                      THEN runRedis(dockerRes[t])
                      ELSE runPlacementService(dockerRes[t])]
    /\ taskPc' = [taskPc EXCEPT ![t] =
                     IF dockerRes[t] # Nil /\ isContainerRunError(dockerRes[t])
                     THEN "sent" ELSE "send"]
    /\ UNCHANGED <<envVars, initPc, ret, cur, recvLog, senders, nextStep, wg,
                   closed, closerPc, stages, calls, spinner, infoShown,
                   successShown>>

(* Lines 103-110 and 138-151: a launcher runs docker and decides what it   *)
(* sends; it then blocks in its send on the unbuffered channel.            *)
LauncherRun(t) ==
    /\ t \in Launchers
    /\ taskPc[t] = "run"
    /\ pending' = [pending EXCEPT ![t] =
                      IF t = "runRedis"
                      THEN runRedis(dockerRes[t])
                      ELSE runPlacementService(dockerRes[t])]
    /\ taskPc' = [taskPc EXCEPT ![t] = "send"]
    /\ UNCHANGED <<envVars, initPc, ret, cur, recvLog, senders, nextStep, wg, closed,
                   closerPc, stages, calls, spinner, infoShown, successShown>>

(* Lines 158-182: the installer runs its pipeline and decides what it sends. *)
InstallRun ==
    /\ taskPc["installActionsBinary"] = "run"
    /\ LET r == installActionsBinary(dir, goos, instEnv)
       IN  /\ pending' = [pending EXCEPT !["installActionsBinary"] = r.sent]
           /\ stages' = r.stages
           /\ calls' = r.calls
    /\ taskPc' = [taskPc EXCEPT !["installActionsBinary"] = "send"]
    /\ UNCHANGED <<envVars, initPc, ret, cur, recvLog, senders, nextStep, wg, closed,
                   closerPc, spinner, infoShown, successShown>>

(* Line 63 meeting a send (lines 107, 111, 148, 152, 161-183): the         *)
(* channel is unbuffered, so a send completes only together with a receive *)
(* of Init.                                                                *)
Receive(t) ==
    /\ initPc = "recv"
    /\ taskPc[t] = "send"
    /\ ~closed
    /\ cur' = pending[t]
    /\ recvLog' = Append(recvLog, pending[t])
    /\ senders' = Append(senders, t)
    /\ taskPc' = [taskPc EXCEPT ![t] = "sent"]
    /\ initPc' = "check"
    /\ UNCHANGED <<envVars, ret, nextStep, wg, closed, closerPc, pending,
                   stages, calls, spinner, infoShown, successShown>>

(* The loop body returning a re-wrapped error. *)
InitCheckRewrap ==
    /\ initPc = "check"
    /\ IF cur # Nil
       THEN /\ spinner' = IF spinner # "none" THEN "stopped" ELSE spinner
            /\ ret' = Errorf(<<"Init failed: ">> \o cur.msg)
            /\ initPc' = "returned"
       ELSE /\ initPc' = "recv"
            /\ UNCHANGED <<spinner, ret>>
    /\ UNCHANGED <<envVars, cur, recvLog, senders, nextStep, wg, closed, closerPc,
                   taskPc, pending, stages, calls, infoShown, successShown>>

(* The loop body without its test: every value is dropped. *)
InitCheckSwallow ==
    /\ initPc = "check"
    /\ initPc' = "recv"
    /\ UNCHANGED <<envVars, ret, cur, recvLog, senders, nextStep, wg, closed, closerPc,
                   taskPc, pending, stages, calls, spinner, infoShown,
                   successShown>>

(* The loop body returning on the first value, nil or not. *)
InitCheckStopOnFirst ==
    /\ initPc = "check"
    /\ spinner' = IF spinner # "none" THEN "stopped" ELSE spinner
    /\ ret' = cur
    /\ initPc' = "returned"
    /\ UNCHANGED <<envVars, cur, recvLog, senders, nextStep, wg, closed, closerPc,
                   taskPc, pending, stages, calls, infoShown, successShown>>

(* The loop body returning the error without s.Stop(). *)
InitCheckNoStop ==
    /\ initPc = "check"
    /\ IF cur # Nil
       THEN /\ ret' = cur
            /\ initPc' = "returned"
       ELSE /\ initPc' = "recv"
            /\ UNCHANGED ret
    /\ UNCHANGED <<envVars, cur, recvLog, senders, nextStep, wg, closed, closerPc,
                   taskPc, pending, stages, calls, spinner, infoShown,
                   successShown>>

(* Lines 64-69: the loop body. *)
InitCheck ==
    /\ initPc = "check"
    /\ IF cur # Nil
       THEN /\ spinner' = IF spinner # "none" THEN "stopped" ELSE spinner
            /\ ret' = cur
            /\ initPc' = "returned"
       ELSE /\ initPc' = "recv"
            /\ UNCHANGED <<spinner, ret>>
    /\ UNCHANGED <<envVars, cur, recvLog, senders, nextStep, wg, closed, closerPc,
                   taskPc, pending, stages, calls, infoShown, successShown>>

(* Line 63 on the closed channel, then lines 72-77. *)
InitFinish ==
    /\ initPc = "recv"
    /\ closed
    /\ IF spinner # "none"
       THEN spinner' = "stopped" /\ successShown' = TRUE
       ELSE UNCHANGED <<spinner, successShown>>
    /\ ret' = Nil
    /\ initPc' = "returned"
    /\ UNCHANGED <<envVars, cur, recvLog, senders, nextStep, wg, closed, closerPc,
                   taskPc, pending, stages, calls, infoShown>>

(* A task that returns without wg.Done(). *)
TaskDoneNoSignal(t) ==
    /\ taskPc[t] = "sent"
    /\ taskPc' = [taskPc EXCEPT ![t] = "done"]
    /\ UNCHANGED <<envVars, initPc, ret, cur, recvLog, senders, nextStep, wg, closed,
                   closerPc, pending, stages, calls, spinner, infoShown,
                   successShown>>

(* The deferred wg.Done() of a task, run when the task returns after its   *)
(* send (lines 102, 136, 156).                                             *)
TaskDone(t) ==
    /\ taskPc[t] = "sent"
    /\ wg' = wg - 1
    /\ taskPc' = [taskPc EXCEPT ![t] = "done"]
    /\ UNCHANGED <<envVars, initPc, ret, cur, recvLog, senders, nextStep, closed,
                   closerPc, pending, stages, calls, spinner, infoShown,
                   successShown>>

Next ==
    \/ InitResolve
    \/ InitSpawn
    \/ InitSpawnCloser
    \/ CloserWait
    \/ CloserClose
    \/ \E t \in Launchers : LauncherRun(t)
    \/ InstallRun
    \/ \E t \in Tasks : Receive(t)
    \/ InitCheck
    \/ InitFinish
    \/ \E t \in Tasks : TaskDone(t)

Spec == Init /\ [][Next]_vars

PipelineSpec == PipelineInit /\ [][Next]_vars

(* Every goroutine that can take a step eventually takes one: the Go       *)
(* scheduler is fair, and every external call is assumed to return.        *)
FairSpec ==
    /\ Spec
    /\ WF_vars(InitResolve)
    /\ WF_vars(InitSpawn)
    /\ WF_vars(InitSpawnCloser)
    /\ WF_vars(CloserWait)
    /\ WF_vars(CloserClose)
    /\ WF_vars(InstallRun)
    /\ WF_vars(InitCheck)
    /\ WF_vars(InitFinish)
    /\ \A t \in Launchers : WF_vars(LauncherRun(t))
    /\ \A t \in Tasks : WF_vars(Receive(t))
    /\ \A t \in Tasks : WF_vars(TaskDone(t))

(***************************************************************************)
(* Properties                                                              *)
(***************************************************************************)
(* The error of directory resolution for the drawn inputs. *)
DirErr == getActionsDir(goos, userFails, mkdirFails).err

(* The value task t sends for the drawn inputs. *)
Outcome(t) ==
    CASE t = "runRedis" -> runRedis(dockerRes[t])
      [] t = "runPlacementService" -> runPlacementService(dockerRes[t])
      [] OTHER -> installActionsBinary(dir, goos, instEnv).sent

(* Task t has decided what it sends. *)
Ran(t) == taskPc[t] \in {"send", "sent", "done"}

(* Task t's send has completed. *)
Delivered(t) == taskPc[t] \in {"sent", "done"}

Returned == initPc = "returned"

(* The name of the component launcher t starts. *)
Component(t) ==
    IF t = "runRedis" THEN "Redis state store" ELSE "placement service"

(* C1: when Init returns a non-nil error after directory resolution        *)
(* succeeded, every value it received before the last one is nil, the last *)
(* one is non-nil and is the returned error, unchanged; nothing is         *)
(* received after it.                                                      *)
C1_FirstErrorRelayed ==
    (Returned /\ DirErr = Nil /\ ret # Nil) =>
        /\ Len(recvLog) >= 1
        /\ \A i \in 1..(Len(recvLog) - 1) : recvLog[i] = Nil
        /\ recvLog[Len(recvLog)] # Nil
        /\ ret = recvLog[Len(recvLog)]

(* Init returned the error of runRedis after it received a nil. *)
C1_Witness ==
    /\ Returned /\ DirErr = Nil /\ ret # Nil
    /\ Len(recvLog) >= 2
    /\ ret = pending["runRedis"]
    /\ ret.type = "ExitError"
    /\ taskPc["runRedis"] = "sent"

(* C2: every started task eventually runs to completion. *)
C2_EveryStartedTaskCompletes ==
    \A t \in Tasks : (taskPc[t] # "idle") ~> (taskPc[t] = "done")

(* C3: once directory resolution succeeded, Init returns nil if and only   *)
(* if every task has delivered nil.                                        *)
C3_NilIffAllNil ==
    (Returned /\ DirErr = Nil) =>
        (ret = Nil <=> \A t \in Tasks : Delivered(t) /\ pending[t] = Nil)

(* Init returned nil although docker failed with status 125 for a launcher. *)
C3_Witness ==
    /\ Returned /\ DirErr = Nil /\ ret = Nil
    /\ \A t \in Tasks : Delivered(t) /\ pending[t] = Nil
    /\ dockerRes["runRedis"] = ExitError(ExitContainerRun)

(* C4: when all three tasks report nil, Init returns nil and has received  *)
(* exactly three values when it returns.                                   *)
C4_AllSuccessDrainsN ==
    (Returned /\ DirErr = Nil /\ \A t \in Tasks : Outcome(t) = Nil) =>
        /\ ret = Nil
        /\ Len(recvLog) = Len(initSteps)

(* Init returned nil on Windows after three receives, docker succeeding. *)
C4_Witness ==
    /\ Returned /\ ret = Nil /\ DirErr = Nil
    /\ \A t \in Tasks : Outcome(t) = Nil
    /\ Len(recvLog) = 3
    /\ \A t \in Launchers : dockerRes[t] = Nil
    /\ goos = "windows"

(* C5: under fair scheduling Init always returns. *)
C5_InitReturns == <>Returned

(* Init returned because the channel was closed. *)
C5_Witness == Returned /\ closed /\ ret = Nil /\ Len(recvLog) = 3

(* C6: whether Init returns nil or an error is fixed by the outcomes of    *)
(* the tasks, whatever the interleaving; a returned error is the outcome   *)
(* of one of the tasks.                                                    *)
C6_AggregateIndependentOfInterleaving ==
    (Returned /\ DirErr = Nil) =>
        /\ (ret # Nil) <=> (\E t \in Tasks : Outcome(t) # Nil)
        /\ ret \in {Outcome(t) : t \in Tasks}

(* Init returned an error although the first value it received was nil and *)
(* a task had not run yet.                                                 *)
C6_Witness ==
    /\ Returned /\ DirErr = Nil /\ ret # Nil
    /\ Len(recvLog) = 2 /\ recvLog[1] = Nil
    /\ \E t \in Tasks : taskPc[t] = "run"

(* C7: a launcher whose docker invocation fails with exit status 125 sends *)
(* nil.                                                                    *)
C7_AlreadyRunningIsSuccess ==
    \A t \in Launchers :
        (Ran(t) /\ dockerRes[t] = ExitError(ExitContainerRun)) =>
            pending[t] = Nil

(* Both launchers got status 125 and Init received their nil values. *)
C7_Witness ==
    /\ \A t \in Launchers :
          /\ dockerRes[t] = ExitError(ExitContainerRun)
          /\ Delivered(t)
          /\ pending[t] = Nil
    /\ Len(recvLog) >= 2

(* C8: a launcher whose docker invocation fails with exit status 127 sends *)
(* the 'Make sure Docker is installed and running' error naming its        *)
(* component, and no other docker result makes it send that message.       *)
C8_NotFoundDistinct ==
    \A t \in Launchers :
        (Ran(t) /\ dockerRes[t] = ExitError(ExitCommandNotFound)) =>
            /\ pending[t] # Nil
            /\ pending[t].msg =
                   <<"Failed to launch ", Component(t),
                     ". Make sure Docker is installed and running">>
            /\ \A r \in CmdResults \ {ExitError(ExitCommandNotFound)} :
                   LET other == IF t = "runRedis" THEN runRedis(r)
                                ELSE runPlacementService(r)
                   IN  other.msg # pending[t].msg

(* runPlacementService got status 127, runRedis another failure, and both  *)
(* have decided what they send.                                            *)
C8_Witness ==
    /\ dockerRes["runPlacementService"] = ExitError(ExitCommandNotFound)
    /\ dockerRes["runRedis"] = ExitError(1)
    /\ Ran("runPlacementService") /\ Ran("runRedis")
    /\ pending["runPlacementService"] # pending["runRedis"]

(* The docker results that are failures other than status 125 and 127. *)
OtherFailures ==
    CmdResults \ {Nil, ExitError(ExitContainerRun),
                  ExitError(ExitCommandNotFound)}

(* C9: a launcher whose docker invocation fails with another exit status   *)
(* or cannot be spawned sends an error whose message names the component.  *)
C9_GenericFailureNamesComponent ==
    \A t \in Launchers :
        (Ran(t) /\ dockerRes[t] \in OtherFailures) =>
            /\ pending[t] # Nil
            /\ \E i \in 1..Len(pending[t].msg) : pending[t].msg[i] = Component(t)

(* C10: while directory resolution fails, no task is started, nothing is   *)
(* received and the progress indicator is not started; Init goes from its  *)
(* start straight to returning that error.  No task leaves idle before     *)
(* directory resolution has succeeded.                                     *)
C10_DirectoryGatesTasks ==
    /\ DirErr # Nil =>
          /\ \A t \in Tasks : taskPc[t] = "idle"
          /\ closerPc = "idle"
          /\ recvLog = << >>
          /\ spinner = "none"
          /\ initPc \in {"start", "returned"}
          /\ Returned => ret = DirErr
    /\ (\E t \in Tasks : taskPc[t] # "idle") =>
          (DirErr = Nil /\ initPc # "start")

(* Init returned the error of os.MkdirAll. *)
C10_Witness ==
    /\ Returned /\ DirErr # Nil /\ ret = DirErr
    /\ mkdirFails /\ ~userFails
    /\ \A t \in Tasks : taskPc[t] = "idle"

(* C11: whenever Init has returned, the progress indicator is not          *)
(* spinning: if it was started, it has been stopped, on the success path   *)
(* and on the error path.                                                  *)
C11_SpinnerStoppedOnReturn ==
    Returned =>
        /\ spinner # "spinning"
        /\ (DirErr = Nil /\ goos # "windows") => spinner = "stopped"

(* Init returned a task's error on Linux and the spinner is stopped. *)
C11_Witness ==
    /\ Returned /\ DirErr = Nil /\ ret # Nil
    /\ goos = "linux"
    /\ spinner = "stopped"
    /\ ~successShown

(* C12: whenever Init returns nil, the success status indicator has been   *)
(* emitted, on every target.                                               *)
C12_SuccessShownOnNil ==
    (Returned /\ ret = Nil) => successShown

(* The stages of installActionsBinary in the order of the code. *)
StageOrder == <<"download", "extract", "move", "chmod">>

(* The text each stage's error is wrapped with (lines 161, 167, 173, 179). *)
StageMsg(stage) ==
    CASE stage = "download" -> "Error downloading actions binary: "
      [] stage = "extract" -> "Error extracting actions binary: "
      [] stage = "move" -> "Error moving actions binary to path: "
      [] stage = "chmod" -> "Error making actions binary executable: "

(* What each stage returns for the drawn inputs, every stage given the     *)
(* path the stage before it returned.                                      *)
StageResults ==
    LET d == downloadFile(dir, instEnv)
        x == extractFile(d.path, dir, instEnv)
        m == moveFileToPath(x.path, goos, instEnv)
        c == makeExecutable(m.path, goos, instEnv)
    IN  <<d, x, m, c>>

Installer == "installActionsBinary"

(* C13: the stages run in the order download, extract, move, chmod; a      *)
(* stage runs only if every stage before it returned no error; when the    *)
(* last stage run failed the task sends that stage's wrapped error and no  *)
(* later stage ran; the task sends nil only when all four stages ran and   *)
(* returned no error.                                                      *)
C13_StagesShortCircuit ==
    Ran(Installer) =>
        LET n == Len(stages)
        IN  /\ n \in 1..Len(StageOrder)
            /\ stages = SubSeq(StageOrder, 1, n)
            /\ \A i \in 1..(n - 1) : StageResults[i].err = Nil
            /\ (StageResults[n].err # Nil) <=> (pending[Installer] # Nil)
            /\ pending[Installer] # Nil =>
                   pending[Installer].msg =
                       <<StageMsg(stages[n])>> \o StageResults[n].err.msg
            /\ pending[Installer] = Nil => n = Len(StageOrder)
            /\ \A i \in (n + 1)..Len(StageOrder) :
                   \A k \in 1..Len(StageResults[i].calls) :
                       \A j \in 1..Len(calls) :
                           calls[j] # StageResults[i].calls[k]

(* On Linux the copy to /usr/local/bin failed: three stages ran and the    *)
(* task is sending the move stage's message.                               *)
C13_Witness ==
    /\ Ran(Installer)
    /\ goos = "linux"
    /\ instEnv.failAt = "ioutil.WriteFile"
    /\ instEnv.nEntries = 2
    /\ stages = <<"download", "extract", "move">>
    /\ pending[Installer].msg[1] = "Error moving actions binary to path: "

(* The values of PATH in which the string c:\actions occurs in some case.  *)
PathsWithDir ==
    {<<"C:\\", "Windows", ";", "c:\\", "actions">>,
     <<"C:\\", "Windows", ";", "C:\\", "Actions">>,
     <<"C:\\", "ACTIONS", ";", "C:\\", "Windows">>,
     <<"C:\\", "Windows", ";", "c:\\", "actions", "2">>}

(* Call c is among the external calls the installer made. *)
Called(c) == \E j \in 1..Len(calls) : calls[j] = c

(* Stage st is among the stages the installer ran. *)
StageRan(st) == \E j \in 1..Len(stages) : stages[j] = st

(* C14: on Windows, when the relocation stage has run, SETX was invoked if *)
(* and only if the install directory string does not occur in PATH in any  *)
(* case.                                                                   *)
C14_SetxOnlyWhenAbsent ==
    (goos = "windows" /\ Ran(Installer) /\ StageRan("move")) =>
        (Called("SETX") <=> instEnv.path \notin PathsWithDir)

(* On Windows PATH holds C:\Actions and the installer finished without     *)
(* SETX.                                                                   *)
C14_Witness ==
    /\ goos = "windows"
    /\ instEnv.path = <<"C:\\", "Windows", ";", "C:\\", "Actions">>
    /\ instEnv.failAt = "SETX"
    /\ Ran(Installer)
    /\ StageRan("move")
    /\ ~Called("SETX")
    /\ pending[Installer] = Nil

(* C15: the closer goroutine gets past wg.Wait() only when all three tasks *)
(* have signalled the wait group; the channel is closed by its one close   *)
(* statement and by nothing else; while the channel is closed no task is   *)
(* before or in its send.                                                  *)
C15_CloseOnceAfterAllDone ==
    /\ closerPc \in {"close", "done"} =>
          (wg = 0 /\ \A t \in Tasks : taskPc[t] = "done")
    /\ closed <=> closerPc = "done"
    /\ closed => \A t \in Tasks : taskPc[t] \notin {"idle", "run", "send"}

(* The channel is closed and Init has not yet seen it. *)
C15_Witness ==
    /\ closed
    /\ initPc = "recv"
    /\ \A t \in Tasks : taskPc[t] = "done"
    /\ Len(recvLog) = Len(initSteps)

(* The number of sends of task t that have completed. *)
SendCount(t) == Cardinality({i \in 1..Len(senders) : senders[i] = t})

(* C16: no task completes more than one send; a task is past its send      *)
(* exactly when one send of it has completed, so a task that returned sent *)
(* exactly once; the wait group counter is the number of tasks that have   *)
(* not yet signalled it, each task signalling once and after its send;     *)
(* every completed send is a receive of Init and there are at most three.  *)
C16_OneSendOneSignalPerTask ==
    /\ \A t \in Tasks : SendCount(t) <= 1
    /\ \A t \in Tasks : Delivered(t) <=> SendCount(t) = 1
    /\ (DirErr = Nil /\ initPc # "start") =>
          wg = Len(initSteps) - Cardinality({t \in Tasks : taskPc[t] = "done"})
    /\ Len(recvLog) = Len(senders)
    /\ Len(recvLog) <= Len(initSteps)

(* All three tasks have sent once and signalled, runRedis first although   *)
(* it was started last and docker reported status 125 to it.               *)
C16_Witness ==
    /\ \A t \in Tasks : taskPc[t] = "done" /\ SendCount(t) = 1
    /\ wg = 0
    /\ senders[1] = "runRedis"
    /\ dockerRes["runRedis"] = ExitError(ExitContainerRun)

(* C17: whatever os.Stat returned, downloadFile went on to http.Get right  *)
(* after it, and it never returned the empty path without an error.        *)
C17_DownloadNeverSkipped ==
    Ran(Installer) =>
        /\ Len(calls) >= 2
        /\ calls[1] = "os.Stat"
        /\ calls[2] = "http.Get"
        /\ LET d == downloadFile(dir, instEnv)
           IN  ~(d.path = << >> /\ d.err = Nil)

(* The archive was already on disk and the installer still downloaded it   *)
(* and finished.                                                           *)
C17_Witness ==
    /\ Ran(Installer)
    /\ instEnv.statErr = "nil"
    /\ instEnv.failAt = "none"
    /\ Called("http.Get")
    /\ Called("os.Create")
    /\ pending[Installer] = Nil
    /\ goos = "windows"

(* Some call on archive entry number i was made. *)
EntryTouched(i) ==
    \/ Called("file.Open " \o EntryName(i))
    \/ Called("os.OpenFile " \o EntryName(i))
    \/ Called("io.Copy " \o EntryName(i))

(* C18: when extractFile has run on an archive with at least one entry, no *)
(* entry after the first was opened or written, and when it succeeded it   *)
(* wrote the first entry and returned the first entry's path in the target *)
(* directory.                                                              *)
C18_OnlyFirstEntryExtracted ==
    (Ran(Installer) /\ StageRan("extract") /\ instEnv.nEntries >= 1) =>
        /\ \A i \in 2..instEnv.nEntries : ~EntryTouched(i)
        /\ StageResults[2].err = Nil =>
              /\ StageResults[2].path = Append(dir, EntryName(1))
              /\ Called("os.OpenFile " \o EntryName(1))
              /\ Called("io.Copy " \o EntryName(1))

(* On Linux a two-entry archive was extracted and installed: the first     *)
(* entry was written, the second never opened.                             *)
C18_Witness ==
    /\ Ran(Installer)
    /\ goos = "linux"
    /\ instEnv.nEntries = 2
    /\ instEnv.failAt = "none"
    /\ Called("io.Copy file1")
    /\ ~EntryTouched(2)
    /\ Called("ioutil.WriteFile")
    /\ pending[Installer] = Nil

(* C19: no launcher sends the 'Is it already running?' error.              *)
C19_AlreadyRunningMessageNeverSent ==
    \A t \in Launchers :
        Ran(t) =>
            pending[t].msg #
                <<"Failed to launch ", Component(t), ". Is it already running?">>

(* runPlacementService got status 125 and is in its send of nil while      *)
(* runRedis got status 127 and is in its send of an error.                 *)
C19_Witness ==
    /\ dockerRes["runPlacementService"] = ExitError(ExitContainerRun)
    /\ dockerRes["runRedis"] = ExitError(ExitCommandNotFound)
    /\ taskPc["runPlacementService"] = "send"
    /\ taskPc["runRedis"] = "send"
    /\ pending["runPlacementService"] = Nil
    /\ pending["runRedis"] # Nil

(* C20: for an archive that opens and has no entries, extractFile returns  *)
(* the empty path and no error, the relocation stage runs with the empty   *)
(* path, and an error the task sends carries the relocation stage's        *)
(* message.                                                                *)
C20_EmptyArchiveFailsAtMove ==
    (Ran(Installer) /\ StageRan("extract") /\ instEnv.nEntries = 0
        /\ instEnv.failAt # "zip.OpenReader") =>
        /\ StageResults[2].path = << >>
        /\ StageResults[2].err = Nil
        /\ StageRan("move")
        /\ pending[Installer] # Nil =>
              pending[Installer].msg[1] = StageMsg("move")

(* On Linux the archive had no entries: the installer ran three stages and *)
(* sends the error of reading the empty path, wrapped by the move stage.   *)
C20_Witness ==
    /\ Ran(Installer)
    /\ goos = "linux"
    /\ instEnv.nEntries = 0
    /\ instEnv.failAt = "none"
    /\ stages = <<"download", "extract", "move">>
    /\ pending[Installer] =
           Errorf(<<"Error moving actions binary to path: ">>
                  \o OsError("ioutil.ReadFile").msg)

====
